---- MODULE Spec2Model ----
(***************************************************************************)
(* Data preparation of rnn.ipynb: the character vocabulary (ctoi / itoc),  *)
(* the encode / decode round trip of cell 5, build_dataset and the         *)
(* train / validation split of cell 6.                                     *)
(*                                                                         *)
(* Characters are modelled by their code points, strings by sequences of   *)
(* code points, dicts by functions, tensors by sequences of numbers.       *)
(***************************************************************************)
EXTENDS Integers, Sequences, FiniteSets, TLC

\* ------------------------------------------------------------------ bounds
MaxTextLen == 3       \* longest corpus of the codec runs
MaxVocabLen == 2      \* longest corpus of the build_dataset runs
MaxInputLen == 5      \* longest sequence handed to encode / build_dataset
MaxIndexLen == 2      \* longest index list handed to decode
MaxContext == 3       \* largest context_size (the notebook uses 3)
MaxCorpusLen == 12    \* longest corpus of the pipeline runs, all tried
MaxHalfLen == 8       \* half the length of the longer pipeline corpora

Alphabet == {32, 65, 66}      \* ' ', 'A', 'B'
PipelineAlphabet == {65, 66}  \* 'A', 'B'
IndexValues == -1 .. 3        \* indices handed to decode, some without entry

\* --------------------------------------------------------------- sequences
Min(a, b) == IF a < b THEN a ELSE b
Max(a, b) == IF a > b THEN a ELSE b

SeqsUpTo(S, m) == UNION {[1..k -> S] : k \in 0..m}

\* the corpora of length 2m that are a sequence over S written twice
Doubled(S, m) == {s \o s : s \in [1..m -> S]}

\* s[:k] for k >= 0
Prefix(s, k) == SubSeq(s, 1, Min(k, Len(s)))

\* s[k:] for k >= 0
Suffix(s, k) == SubSeq(s, Min(k, Len(s)) + 1, Len(s))

\* set(s)
SetOf(s) == {s[j] : j \in 1..Len(s)}

RECURSIVE SortSet(_)
\* sorted(S) as a list
SortSet(S) ==
    IF S = {} THEN <<>>
    ELSE LET m == CHOOSE x \in S : \A y \in S : x <= y
         IN  <<m>> \o SortSet(S \ {m})

RECURSIVE FirstSeen(_)
\* the distinct elements of s in order of first appearance
FirstSeen(s) ==
    IF s = <<>> THEN <<>>
    ELSE LET r == FirstSeen(SubSeq(s, 1, Len(s) - 1))
             c == s[Len(s)]
         IN  IF c \in SetOf(r) THEN r ELSE Append(r, c)

\* ------------------------------------------------------------- float32
RECURSIVE Log2(_)
Log2(v) == IF v <= 1 THEN 0 ELSE 1 + Log2(v \div 2)

RECURSIVE Pow2(_)
Pow2(e) == IF e = 0 THEN 1 ELSE 2 * Pow2(e - 1)

\* torch.tensor(v, dtype=torch.float32) for an integer v >= 0: v rounded to
\* a 24-bit significand, ties to even
F32(v) ==
    IF Log2(v) <= 23 THEN v
    ELSE LET ulp == Pow2(Log2(v) - 23)
             q == v \div ulp
             r == v % ulp
         IN  IF 2 * r < ulp THEN q * ulp
             ELSE IF 2 * r > ulp THEN (q + 1) * ulp
             ELSE IF q % 2 = 0 THEN q * ulp ELSE (q + 1) * ulp

\* -------------------------------------------------------------- vocabulary
\* list(set(text)) without the sort
CharactersUnsorted(txt) == FirstSeen(txt)

\* the split point n = int(0.8*len(text)); 0.8*L in binary64 truncates to
\* floor(4L/5) for every length below 2^50
SplitPoint(L) == (4 * L) \div 5

\* the characters of the training part only
CharactersOfTrain(txt) == SortSet(SetOf(Prefix(txt, SplitPoint(Len(txt)))))

\* characters = list(sorted(set(text)))
Characters(txt) == SortSet(SetOf(txt))

\* ctoi = {c:i for i, c in enumerate(characters)}; a later pair overwrites
\* an earlier one with the same key
Ctoi(chars) ==
    [c \in SetOf(chars) |->
        (CHOOSE j \in 1..Len(chars) :
            /\ chars[j] = c
            /\ \A m \in 1..Len(chars) : chars[m] = c => m <= j) - 1]

\* {c:i for c, i in ctoi.items()}: the comprehension with its variables
\* swapped
ItocSwapped(d) == d

\* itoc = {i:c for c, i in ctoi.items()}
Itoc(d) ==
    [i \in {d[c] : c \in DOMAIN d} |-> CHOOSE c \in DOMAIN d : d[c] = i]

\* d.get(key, 0): a missing key gives a value
LookupDefault(d, key) ==
    [ok |-> TRUE, v |-> IF key \in DOMAIN d THEN d[key] ELSE 0]

\* d[key] of a dict: the value, or KeyError when the key is absent
Lookup(d, key) ==
    IF key \in DOMAIN d THEN [ok |-> TRUE, v |-> d[key]]
    ELSE [ok |-> FALSE, v |-> 0]

RECURSIVE MapLookup(_, _, _, _)
\* [d[x] for x in s], evaluated left to right from element i on; the first
\* missing key ends the evaluation with KeyError
MapLookup(d, s, i, acc) ==
    IF i > Len(s) THEN [err |-> "none", value |-> acc, at |-> 0]
    ELSE LET r == Lookup(d, s[i])
         IN  IF r.ok THEN MapLookup(d, s, i + 1, Append(acc, r.v))
             ELSE [err |-> "KeyError", value |-> acc, at |-> i]

\* ------------------------------------------------------------------- state
VARIABLES
    text,                \* the corpus (cell 2)
    context_size,        \* the global context_size
    characters,          \* cell 5
    ctoi,                \* cell 5
    itoc,                \* cell 5
    example,             \* cell 5: the sequence being encoded
    translated_example,  \* cell 5: its encoding
    indices,             \* the index list handed to the decoding expression
    decoded,             \* the string the decoding expression produced
    btext,               \* build_dataset: its parameter text
    context,             \* build_dataset: the rolling context
    X,                   \* build_dataset: the list X
    Y,                   \* build_dataset: the list Y
    pos,                 \* build_dataset: loop characters consumed so far
    retX,                \* build_dataset: the returned X
    retY,                \* build_dataset: the returned Y
    n,                   \* cell 6: the split point
    Xtr, Ytr,            \* cell 6: the training set
    Xval, Yval,          \* cell 6: the validation set
    err,                 \* the exception that ended the run, "none" if none
    errKey,              \* the key the KeyError carries
    pc                   \* the statement the notebook is at

vars == <<text, context_size, characters, ctoi, itoc, example,
          translated_example, indices, decoded, btext, context, X, Y, pos,
          retX, retY, n, Xtr, Ytr, Xval, Yval, err, errKey, pc>>

vocabVars == <<characters, ctoi, itoc>>
codecVars == <<example, translated_example, indices, decoded>>
loopVars == <<btext, context, X, Y, pos, retX, retY>>
splitVars == <<n, Xtr, Ytr, Xval, Yval>>

\* ------------------------------------------------------------ build_dataset
\* context[1:] + c without the slice: the context grows
RollNoDrop(ctx, c) == Append(ctx, c)

\* context = context[1:] + c
Roll(ctx, c) == Append(Suffix(ctx, 1), c)

\* text[context_size+1:]: the loop starts one character late
LoopCharsLate(s) == Suffix(s, context_size + 1)

\* the characters the loop runs over, text[context_size:]
LoopChars(s) == Suffix(s, context_size)

\* context = text[:context_size]
InitialContext(s) == Prefix(s, context_size)

\* torch.tensor([...], dtype=torch.float32) of a list of indices
Tensor(is) == [j \in 1..Len(is) |-> F32(is[j])]

\* one iteration of the for loop on character c, from the locals st
LoopBody(st, c) ==
    LET rx == MapLookup(ctoi, st.context, 1, <<>>)
        ry == Lookup(ctoi, c)
    IN  IF rx.err # "none"
        THEN [st EXCEPT !.err = "KeyError", !.at = st.context[rx.at]]
        ELSE IF ~ry.ok
        THEN [st EXCEPT !.X = Append(st.X, Tensor(rx.value)),
                        !.err = "KeyError", !.at = c]
        ELSE [st EXCEPT !.X = Append(st.X, Tensor(rx.value)),
                        !.Y = Append(st.Y, F32(ry.v)),
                        !.context = Roll(st.context, c)]

\* torch.stack(tensors): an empty list raises RuntimeError
Stack(tensors) ==
    IF tensors = <<>> THEN [err |-> "RuntimeError", value |-> <<>>]
    ELSE [err |-> "none", value |-> tensors]

\* X = torch.stack(X); Y = torch.stack(Y); return X, Y
StackAndReturn(xs, ys) ==
    LET sx == Stack(xs)
        sy == Stack(ys)
    IN  IF sx.err # "none"
        THEN [err |-> sx.err, at |-> 0, X |-> <<>>, Y |-> <<>>]
        ELSE IF sy.err # "none"
        THEN [err |-> sy.err, at |-> 0, X |-> <<>>, Y |-> <<>>]
        ELSE [err |-> "none", at |-> 0, X |-> sx.value, Y |-> sy.value]

RECURSIVE RunLoop(_, _, _)
\* the for loop from its i-th character on
RunLoop(st, chars, i) ==
    IF i > Len(chars) \/ st.err # "none" THEN st
    ELSE RunLoop(LoopBody(st, chars[i]), chars, i + 1)

\* build_dataset(s) as one call
BuildDataset(s) ==
    LET st0 == [context |-> InitialContext(s), X |-> <<>>, Y |-> <<>>,
                err |-> "none", at |-> 0]
        fin == RunLoop(st0, LoopChars(s), 1)
    IN  IF fin.err # "none"
        THEN [err |-> fin.err, at |-> fin.at, X |-> <<>>, Y |-> <<>>]
        ELSE StackAndReturn(fin.X, fin.Y)

\* ------------------------------------------------------------------- split
\* text[:n-1]: the training part one character short
TrainingTextShort(txt, k) == Prefix(txt, Max(k - 1, 0))

\* text[:n]
TrainingText(txt, k) == Prefix(txt, k)

\* text[n-context_size:]: the validation windows reach back over the cut
ValidationTextOverlap(txt, k) == Suffix(txt, Max(k - context_size, 0))

\* text[n:]
ValidationText(txt, k) == Suffix(txt, k)

\* ----------------------------------------------------------------- actions
Blank ==
    /\ characters = <<>> /\ ctoi = <<>> /\ itoc = <<>>
    /\ example = <<>> /\ translated_example = <<>>
    /\ indices = <<>> /\ decoded = <<>>
    /\ btext = <<>> /\ context = <<>> /\ X = <<>> /\ Y = <<>> /\ pos = 0
    /\ retX = <<>> /\ retY = <<>>
    /\ n = -1 /\ Xtr = <<>> /\ Ytr = <<>> /\ Xval = <<>> /\ Yval = <<>>
    /\ err = "none" /\ errKey = 0
    /\ pc = "vocab"

\* cell 5, lines 120-123
BuildVocabulary ==
    /\ pc = "vocab"
    /\ characters' = Characters(text)
    /\ ctoi' = Ctoi(characters')
    /\ itoc' = Itoc(ctoi')
    /\ pc' = "ready"
    /\ UNCHANGED <<text, context_size, codecVars, loopVars, splitVars,
                   err, errKey>>

\* cell 5, line 126 on a sequence s
EncodeExample(s) ==
    /\ pc = "ready"
    /\ example' = s
    /\ LET r == MapLookup(ctoi, s, 1, <<>>)
       IN  IF r.err = "none"
           THEN /\ translated_example' = r.value
                /\ pc' = "encoded"
                /\ UNCHANGED <<err, errKey>>
           ELSE /\ err' = r.err
                /\ errKey' = s[r.at]
                /\ pc' = "encode_raised"
                /\ UNCHANGED translated_example
    /\ UNCHANGED <<text, context_size, vocabVars, indices, decoded,
                   loopVars, splitVars>>

\* the decoding expression of line 129 on the index list is
Decode(is) ==
    /\ indices' = is
    /\ LET r == MapLookup(itoc, is, 1, <<>>)
       IN  IF r.err = "none"
           THEN /\ decoded' = r.value
                /\ pc' = "decoded"
                /\ UNCHANGED <<err, errKey>>
           ELSE /\ err' = r.err
                /\ errKey' = is[r.at]
                /\ pc' = "decode_raised"
                /\ UNCHANGED decoded
    /\ UNCHANGED <<text, context_size, vocabVars, example,
                   translated_example, loopVars, splitVars>>

\* cell 5, line 129
DecodeExample ==
    /\ pc = "encoded"
    /\ Decode(translated_example)

\* the decoding expression on an index list from elsewhere
DecodeIndices(is) ==
    /\ pc = "ready"
    /\ Decode(is)

\* build_dataset(s), lines 157-158
CallBuildDataset(s) ==
    /\ pc = "ready"
    /\ btext' = s
    /\ X' = <<>>
    /\ Y' = <<>>
    /\ context' = InitialContext(s)
    /\ pos' = 0
    /\ pc' = "loop"
    /\ UNCHANGED <<text, context_size, vocabVars, codecVars, retX, retY,
                   splitVars, err, errKey>>

\* build_dataset, lines 160-163: one iteration
LoopIteration ==
    /\ pc = "loop"
    /\ pos < Len(LoopChars(btext))
    /\ LET c == LoopChars(btext)[pos + 1]
           st == LoopBody([context |-> context, X |-> X, Y |-> Y,
                           err |-> "none", at |-> 0], c)
       IN  /\ X' = st.X
           /\ Y' = st.Y
           /\ context' = st.context
           /\ err' = st.err
           /\ errKey' = st.at
           /\ pos' = IF st.err = "none" THEN pos + 1 ELSE pos
           /\ pc' = IF st.err = "none" THEN "loop" ELSE "loop_raised"
    /\ UNCHANGED <<text, context_size, vocabVars, codecVars, btext, retX,
                   retY, splitVars>>

\* build_dataset, lines 165-168
LoopExit ==
    /\ pc = "loop"
    /\ pos = Len(LoopChars(btext))
    /\ LET r == StackAndReturn(X, Y)
       IN  /\ err' = r.err
           /\ retX' = r.X
           /\ retY' = r.Y
           /\ pc' = IF r.err = "none" THEN "returned" ELSE "stack_raised"
    /\ UNCHANGED <<text, context_size, vocabVars, codecVars, btext,
                   context, X, Y, pos, splitVars, errKey>>

\* cell 6, line 170
ComputeSplit ==
    /\ pc = "ready"
    /\ n' = SplitPoint(Len(text))
    /\ pc' = "split"
    /\ UNCHANGED <<text, context_size, vocabVars, codecVars, loopVars,
                   Xtr, Ytr, Xval, Yval, err, errKey>>

\* cell 6, line 172
BuildTraining ==
    /\ pc = "split"
    /\ LET r == BuildDataset(TrainingText(text, n))
       IN  /\ err' = r.err
           /\ errKey' = r.at
           /\ IF r.err = "none"
              THEN Xtr' = r.X /\ Ytr' = r.Y /\ pc' = "train"
              ELSE UNCHANGED <<Xtr, Ytr>> /\ pc' = "train_raised"
    /\ UNCHANGED <<text, context_size, vocabVars, codecVars, loopVars,
                   n, Xval, Yval>>

\* cell 6, line 173
BuildValidation ==
    /\ pc = "train"
    /\ LET r == BuildDataset(ValidationText(text, n))
       IN  /\ err' = r.err
           /\ errKey' = r.at
           /\ IF r.err = "none"
              THEN Xval' = r.X /\ Yval' = r.Y /\ pc' = "val"
              ELSE UNCHANGED <<Xval, Yval>> /\ pc' = "val_raised"
    /\ UNCHANGED <<text, context_size, vocabVars, codecVars, loopVars,
                   n, Xtr, Ytr>>

\* ---------------------------------------------------------- specifications
\* the vocabulary and the encode / decode expressions of cell 5
Init ==
    /\ text \in SeqsUpTo(Alphabet, MaxTextLen)
    /\ context_size = 8
    /\ Blank

Next ==
    \/ BuildVocabulary
    \/ \E s \in SeqsUpTo(Alphabet, MaxInputLen) : EncodeExample(s)
    \/ DecodeExample
    \/ \E is \in SeqsUpTo(IndexValues, MaxIndexLen) : DecodeIndices(is)

Spec == Init /\ [][Next]_vars

\* build_dataset, statement by statement
InitBuild ==
    /\ text \in SeqsUpTo(Alphabet, MaxVocabLen)
    /\ context_size \in 1..MaxContext
    /\ Blank

NextBuild ==
    \/ BuildVocabulary
    \/ \E s \in SeqsUpTo(Alphabet, MaxInputLen) : CallBuildDataset(s)
    \/ LoopIteration
    \/ LoopExit

SpecBuild == InitBuild /\ [][NextBuild]_vars

\* cell 6: the split and the two datasets
InitPipeline ==
    /\ text \in SeqsUpTo(PipelineAlphabet, MaxCorpusLen)
                \cup Doubled(PipelineAlphabet, MaxHalfLen)
    /\ context_size \in 1..MaxContext
    /\ Blank

NextPipeline ==
    \/ BuildVocabulary
    \/ ComputeSplit
    \/ BuildTraining
    \/ BuildValidation

SpecPipeline == InitPipeline /\ [][NextPipeline]_vars

\* ------------------------------------------------------------- the codec
\* the number of distinct characters of the corpus
VocabularySize == Cardinality(SetOf(text))

\* the first element of s that is no key of d, 0 when every element is one
FirstMissing(d, s) ==
    IF \A j \in 1..Len(s) : s[j] \in DOMAIN d THEN 0
    ELSE s[CHOOSE j \in 1..Len(s) :
               /\ s[j] \notin DOMAIN d
               /\ \A m \in 1..(j - 1) : s[m] \in DOMAIN d]

\* C1: for every sequence made only of characters of the corpus, the
\* encoding succeeds and has the length of the sequence, and decoding the
\* encoding succeeds and gives back the sequence itself.
C1_RoundTrip ==
    (pc # "vocab" /\ SetOf(example) \subseteq SetOf(text)) =>
        /\ pc # "encode_raised"
        /\ pc = "encoded" => Len(translated_example) = Len(example)
        /\ (pc \in {"decoded", "decode_raised"}
                /\ indices = translated_example) =>
              /\ pc = "decoded"
              /\ Len(decoded) = Len(example)
              /\ \A j \in 1..Len(example) : decoded[j] = example[j]
              /\ decoded = example

C1_Witness ==
    /\ pc = "decoded"
    /\ VocabularySize = 3
    /\ example = text
    /\ indices = translated_example
    /\ decoded = <<66, 32, 65>>

\* C2: the vocabulary is a bijection between the distinct characters of the
\* corpus and 0..k-1, itoc is the inverse of ctoi, and the index of a
\* character is the number of distinct corpus characters below it, so the
\* assignment is increasing in the character and fixed by the corpus.
C2_Bijection ==
    pc # "vocab" =>
        LET k == VocabularySize
        IN  /\ Len(characters) = k
            /\ DOMAIN ctoi = SetOf(text)
            /\ DOMAIN itoc = 0..(k - 1)
            /\ {ctoi[c] : c \in DOMAIN ctoi} = 0..(k - 1)
            /\ {itoc[i] : i \in DOMAIN itoc} = SetOf(text)
            /\ \A c \in DOMAIN ctoi : itoc[ctoi[c]] = c
            /\ \A i \in DOMAIN itoc : ctoi[itoc[i]] = i
            /\ \A c1, c2 \in DOMAIN ctoi :
                  /\ (c1 # c2 => ctoi[c1] # ctoi[c2])
                  /\ (c1 < c2 => ctoi[c1] < ctoi[c2])
            /\ \A c \in DOMAIN ctoi :
                  ctoi[c] = Cardinality({d \in SetOf(text) : d < c})

C2_Witness ==
    /\ pc = "ready"
    /\ text = <<66, 32, 65>>
    /\ ctoi[32] = 0 /\ ctoi[65] = 1 /\ ctoi[66] = 2
    /\ itoc[2] = 66

\* C8: a sequence with a character outside the vocabulary is not encoded and
\* an index list with an index outside the vocabulary is not decoded: the
\* KeyError carries the first such element, the result stays unassigned,
\* and the vocabulary is still the one built from the corpus.
C8_LookupFails ==
    /\ (pc # "vocab" /\ ~(SetOf(example) \subseteq SetOf(text))) =>
          /\ pc = "encode_raised"
          /\ err = "KeyError"
          /\ errKey = FirstMissing(ctoi, example)
          /\ translated_example = <<>>
          /\ decoded = <<>>
    /\ (pc # "vocab"
            /\ ~(SetOf(indices) \subseteq 0..(VocabularySize - 1))) =>
          /\ pc = "decode_raised"
          /\ err = "KeyError"
          /\ errKey = FirstMissing(itoc, indices)
          /\ decoded = <<>>
    /\ pc \in {"encode_raised", "decode_raised"} =>
          /\ characters = Characters(text)
          /\ DOMAIN ctoi = SetOf(text)
          /\ DOMAIN itoc = 0..(VocabularySize - 1)
          /\ \A c \in DOMAIN ctoi : characters[ctoi[c] + 1] = c
          /\ \A i \in DOMAIN itoc : characters[i + 1] = itoc[i]

C8_Witness ==
    /\ pc = "encode_raised"
    /\ text = <<65, 66>>
    /\ example = <<65, 32, 66, 32>>
    /\ errKey = 32

\* ----------------------------------------------------------- build_dataset
\* the call of build_dataset is over: it returned or raised
Finished == pc \in {"returned", "stack_raised", "loop_raised"}

\* the argument of build_dataset holds characters of the vocabulary only
Encodable == SetOf(btext) \subseteq DOMAIN ctoi

\* the examples of xs, ys are the windows of s from its first character on:
\* example i (from 0) holds the encoded s at positions i .. i+context_size-1
\* and its target is the encoded s at position i+context_size
WindowsOf(xs, ys, s) ==
    /\ \A i \in 1..Len(xs) :
          /\ Len(xs[i]) = context_size
          /\ \A j \in 1..context_size : xs[i][j] = ctoi[s[i - 1 + j]]
    /\ \A i \in 1..Len(ys) : ys[i] = ctoi[s[i + context_size]]

\* C3: on an encodable text, the examples emitted so far are, in order, the
\* windows of the text (context i = positions i .. i+context_size-1, target
\* = position i+context_size), one per loop character consumed, and what
\* build_dataset returns is one example per position t in
\* [context_size, L), X and Y with the same number of rows.
C3_Examples ==
    (pc \in {"loop", "returned", "stack_raised"} /\ Encodable) =>
        /\ Len(X) = pos
        /\ Len(Y) = pos
        /\ WindowsOf(X, Y, btext)
        /\ pc = "returned" =>
              /\ retX = X
              /\ retY = Y
              /\ Len(retX) = Len(retY)
              /\ Len(retX) = Len(btext) - context_size
              /\ {i + context_size - 1 : i \in 1..Len(retY)}
                    = context_size..(Len(btext) - 1)

C3_Witness ==
    /\ pc = "returned"
    /\ context_size = 3
    /\ btext = <<65, 66, 66, 65, 66>>
    /\ retX = <<<<0, 1, 1>>, <<1, 1, 0>>>>
    /\ retY = <<0, 1>>

\* C4: build_dataset on an encoded text of length L produces exactly
\* max(0, L - context_size) examples.
C4_ExampleCount ==
    (Finished /\ Encodable) =>
        /\ pc = "returned"
        /\ Len(retX) = Max(0, Len(btext) - context_size)
        /\ Len(retY) = Max(0, Len(btext) - context_size)

\* C5: on a text no longer than context_size build_dataset completes
\* normally and returns an empty dataset.
C5_ShortInputReturnsEmpty ==
    (Finished /\ Len(btext) <= context_size) =>
        /\ pc = "returned"
        /\ err = "none"
        /\ retX = <<>>
        /\ retY = <<>>

\* C10, at a state: at the start of an iteration the context holds the
\* context_size characters just before the current character, and each
\* example's context is the previous one shifted left by one with the
\* previous target appended.
SlidingWindow ==
    /\ (pc = "loop" /\ pos < Len(LoopChars(btext))) =>
          /\ Len(context) = context_size
          /\ \A j \in 1..context_size : context[j] = btext[pos + j]
          /\ LoopChars(btext)[pos + 1] = btext[pos + context_size + 1]
    /\ \A i \in 1..(Len(X) - 1) :
          i <= Len(Y) =>
              X[i + 1] = Append(SubSeq(X[i], 2, Len(X[i])), Y[i])

\* C10, at a step: an iteration replaces the context by the old context
\* without its first character, followed by the current character.
SlidingStep ==
    (pc = "loop" /\ pc' = "loop" /\ pos' = pos + 1) =>
        /\ Len(context') = context_size
        /\ context' = Append(SubSeq(context, 2, Len(context)),
                             LoopChars(btext)[pos + 1])

\* C10: the rolling context of build_dataset is a stride-1 sliding window.
C10_SlidingWindow == []SlidingWindow /\ [][SlidingStep]_vars

C10_Witness ==
    /\ pc = "loop"
    /\ context_size = 3
    /\ pos = 2
    /\ btext = <<65, 66, 66, 65, 66>>
    /\ context = <<66, 65, 66>>
    /\ X = <<<<0, 1, 1>>, <<1, 1, 0>>>>

\* ---------------------------------------------------------------- pipeline
\* the training set is assigned
TrainingBuilt == pc \in {"train", "val", "val_raised"}

\* both sets are assigned
BothBuilt == pc = "val"

\* the corpus positions (from 0) that are the target of some example
TargetPositions ==
    {i - 1 + context_size : i \in 1..Len(Ytr)}
        \cup {n + i - 1 + context_size : i \in 1..Len(Yval)}

\* C6: n is floor(0.8 L); the training part is corpus[0..n), the validation
\* part is corpus[n..L), in the order of the corpus, and the two together
\* are the corpus.
C6_LosslessSplit ==
    pc \notin {"vocab", "ready"} =>
        LET L == Len(text)
            tr == TrainingText(text, n)
            va == ValidationText(text, n)
        IN  /\ 5 * n <= 4 * L
            /\ 4 * L < 5 * (n + 1)
            /\ Len(tr) = n
            /\ Len(va) = L - n
            /\ \A i \in 1..n : tr[i] = text[i]
            /\ \A i \in 1..(L - n) : va[i] = text[n + i]
            /\ tr \o va = text

C6_Witness ==
    /\ pc = "val"
    /\ Len(text) = 12
    /\ n = 9
    /\ TrainingText(text, n) = <<65, 66, 66, 65, 65, 65, 66, 65, 66>>
    /\ ValidationText(text, n) = <<66, 65, 65>>

\* C7: every training example lies before the cut and every validation
\* example after it: training example i is the window of the corpus at
\* positions i .. i+context_size with i+context_size < n, validation
\* example i the window at n+i .. n+i+context_size; no position in
\* n .. n+context_size-1 is a target, and when both parts are longer than
\* context_size both sets are built and hold L - 2*context_size examples.
C7_NoWindowCrossesSplit ==
    /\ pc = "train_raised" => n <= context_size
    /\ pc = "val_raised" => Len(text) - n <= context_size
    /\ TrainingBuilt =>
          /\ Len(Xtr) = n - context_size
          /\ Len(Ytr) = n - context_size
          /\ WindowsOf(Xtr, Ytr, text)
          /\ \A i \in 1..Len(Ytr) : i - 1 + context_size < n
    /\ BothBuilt =>
          /\ Len(Xval) = Len(text) - n - context_size
          /\ Len(Yval) = Len(text) - n - context_size
          /\ WindowsOf(Xval, Yval, Suffix(text, n))
          /\ \A i \in 1..Len(Xval) : \A j \in 1..context_size :
                Xval[i][j] = ctoi[text[n + i - 1 + j]]
          /\ \A i \in 1..Len(Yval) : Yval[i] = ctoi[text[n + i + context_size]]
          /\ Len(Xtr) + Len(Xval) = Len(text) - 2 * context_size
    /\ TargetPositions \cap n..(n + context_size - 1) = {}
    /\ TargetPositions \subseteq 0..(Len(text) - 1)

C7_Witness ==
    /\ pc = "val"
    /\ context_size = 3
    /\ text = <<65, 66, 66, 65, 65, 65, 66, 65,
                65, 66, 66, 65, 65, 65, 66, 65>>
    /\ n = 12
    /\ Len(Xtr) = 9
    /\ Xval = <<<<0, 0, 1>>>>
    /\ Yval = <<0>>

\* C9: neither call of build_dataset ends in a KeyError, every context
\* element and target of either set is an index of the vocabulary, and a
\* training target and a validation target are the same index exactly
\* when the corpus characters they stand for are the same.
C9_SharedVocabulary ==
    /\ err # "KeyError"
    /\ pc \notin {"vocab", "ready", "split"} =>
          LET ix == 0..(VocabularySize - 1)
          IN  /\ \A i \in 1..Len(Xtr) : \A j \in 1..Len(Xtr[i]) :
                    Xtr[i][j] \in ix
              /\ \A i \in 1..Len(Xval) : \A j \in 1..Len(Xval[i]) :
                    Xval[i][j] \in ix
              /\ \A i \in 1..Len(Ytr) : Ytr[i] \in ix
              /\ \A i \in 1..Len(Yval) : Yval[i] \in ix
              /\ \A i \in 1..Len(Ytr) : \A j \in 1..Len(Yval) :
                    (Ytr[i] = Yval[j]) <=>
                        (text[i + context_size]
                            = text[n + j + context_size])
              /\ \A i \in 1..Len(Xtr) : \A j \in 1..Len(Xval) :
                    (Xtr[i][1] = Xval[j][1]) <=> (text[i] = text[n + j])

C9_Witness ==
    /\ pc = "val"
    /\ context_size = 1
    /\ text = <<65, 65, 65, 65, 65, 65, 65, 65, 66, 65>>
    /\ Ytr = <<0, 0, 0, 0, 0, 0, 0>>
    /\ Xval = <<<<1>>>>
    /\ Yval = <<0>>

====
